---- MODULE Spec2Model ----
(***************************************************************************)
(* shade (src/src/lib.rs): claiming the X11 root-pixmap convention atoms.  *)
(*                                                                         *)
(* The model has two halves.  The display server (atoms, root-window       *)
(* properties, clients, their resources and close-down modes) answers the  *)
(* requests that lib.rs sends; the client half is lib.rs itself: load and  *)
(* its OnceCell, inner_load step by step, kill_pmap_atoms and              *)
(* resolve_atom.  A process is one run of a program that links the         *)
(* library; its threads call load.                                         *)
(*                                                                         *)
(* Spec runs the processes one after the other, over many contents of the *)
(* two properties.  SpecUse adds the users of the handle: flush and the    *)
(* writers of the pixel buffer, over the screens.  SpecBeside runs the     *)
(* processes at the same time.                                             *)
(***************************************************************************)
EXTENDS Integers, Sequences, FiniteSets, TLC

\* ------------------------------------------------------------------ bounds
MaxRuns == 2        \* processes, run one after the other against one server
NumThreads == 2     \* threads of a process that call load
MaxCalls == 2       \* calls of load, over all runs
MaxUses == 3        \* uses of the handle (flush, buffer write), over all runs

Procs == 1..MaxRuns
Threads == 1..NumThreads

\* --------------------------------------------------------------- constants
\* Atoms are modelled by their names; ATOM_NONE is the none sentinel.
ATOM_NONE == "ATOM_NONE"
ATOM_PIXMAP == "PIXMAP"
ATOM_CARDINAL == "CARDINAL"
XROOTPMAP == "_XROOTPMAP_ID"
ESETROOT == "ESETROOT_PMAP_ID"
AtomNames == {XROOTPMAP, ESETROOT}

OpenMethods == {"KeepExisting", "MakeNew", "LoadFromFile"}

\* ------------------------------------------------------------ resource ids
\* A resource id is the owning client's base plus a counter (generate_id).
ClientBase(c) == c * 256
OwnerOf(id) == id \div 256
PixmapIdOf(c) == ClientBase(c) + 1
GcIdOf(c) == ClientBase(c) + 2

\* Clients that exist before any run, by client number: "gone" set
\* RetainPermanent and exited (a one-shot wallpaper setter); "live" is
\* still connected with the default close-down mode; "stale" closed long
\* ago, and the ids of its resources name nothing.
Foreign == <<"gone", "live", "stale">>
ClientNumber(name) == CHOOSE c \in 1..Len(Foreign) : Foreign[c] = name
ForeignGone == ClientNumber("gone")
ForeignLive == ClientNumber("live")
StaleClient == ClientNumber("stale")
FirstConn == Len(Foreign) + 1

\* ------------------------------------------------------------------ screens
\* The root of the setup the server sends at connect: its size, its depth
\* and the bits the server's pixmap format for that depth gives a pixel.
\* Scanline padding is left out: a width stands for a multiple of the pad.
Screens ==
    << [width |-> 2, height |-> 1, root_depth |-> 24, bits_per_pixel |-> 32],
       [width |-> 1, height |-> 2, root_depth |-> 24, bits_per_pixel |-> 24],
       [width |-> 1, height |-> 1, root_depth |-> 16, bits_per_pixel |-> 16] >>

\* -------------------------------------------------------------- properties
NoProp == [type |-> "NONE", format |-> 0, value |-> <<>>]

\* The units of a 32-bit id when stored with 32-, 16- or 8-bit format
\* (least significant unit first, the byte order of the usual build).
Units(id, format) ==
    CASE format = 32 -> <<id>>
      [] format = 16 -> <<id % 65536, id \div 65536>>
      [] format = 8  -> <<id % 256, (id \div 256) % 256,
                          (id \div 65536) % 256, id \div 16777216>>

PixProp(id, format) ==
    [type |-> ATOM_PIXMAP, format |-> format, value |-> Units(id, format)]

\* What the two convention properties may hold before the first run; the
\* two sets differ so that the pairs cover equal and different ids, ids
\* that are equal under different formats, ids of no resource, values of
\* another type and values too short to hold an id.
SamplePropsXroot ==
    { NoProp,
      PixProp(PixmapIdOf(ForeignGone), 32),
      PixProp(PixmapIdOf(ForeignLive), 16),
      PixProp(PixmapIdOf(StaleClient), 32),
      [type |-> ATOM_PIXMAP, format |-> 32, value |-> <<>>] }

SamplePropsEsetroot ==
    { NoProp,
      PixProp(PixmapIdOf(ForeignLive), 32),
      PixProp(PixmapIdOf(ForeignGone), 8),
      [type |-> ATOM_CARDINAL, format |-> 32,
       value |-> <<PixmapIdOf(ForeignGone)>>],
      [type |-> ATOM_PIXMAP, format |-> 8, value |-> <<1, 1>>] }

\* ------------------------------------------------------------------ server
\* GetProperty with long_offset 0 and long_length 1: the type, the format
\* and at most four bytes of the value.
GetPropertyReply(s, atom) ==
    LET p == s.props[atom]
        n == IF p.format = 0 THEN 0 ELSE 32 \div p.format
        k == IF Len(p.value) < n THEN Len(p.value) ELSE n
    IN  [type |-> p.type, format |-> p.format, value |-> SubSeq(p.value, 1, k)]

\* ChangeProperty with mode Append instead of Replace: the word is added
\* to a value of the same type and format.
ChangePropertyAppend(s, atom, id) ==
    LET old == s.props[atom] IN
    [s EXCEPT !.props[atom] =
        [type |-> ATOM_PIXMAP, format |-> 32,
         value |-> IF old.type = ATOM_PIXMAP /\ old.format = 32
                   THEN Append(old.value, id) ELSE <<id>>]]

\* ChangeProperty, mode Replace, type PIXMAP, data one 32-bit word.
ChangePropertyReplace(s, atom, id) ==
    [s EXCEPT !.props[atom] =
        [type |-> ATOM_PIXMAP, format |-> 32, value |-> <<id>>]]

\* InternAtom: the atom of a name, registering it unless only_if_exists.
InternAtomReply(s, name, only_if_exists) ==
    IF name \in s.atoms \/ ~only_if_exists THEN name ELSE ATOM_NONE

InternAtomEffect(s, name, only_if_exists) ==
    IF only_if_exists THEN s ELSE [s EXCEPT !.atoms = @ \cup {name}]

\* The server closes down client c: a connected client in RetainPermanent
\* mode keeps its resources and stays known as a terminated client; in
\* every other case (default mode, or already terminated) its resources
\* are destroyed.
CloseDownClient(s, c) ==
    IF c \in s.open /\ c \in s.retain
    THEN [s EXCEPT !.open = @ \ {c}, !.gone = @ \cup {c}]
    ELSE [s EXCEPT !.open = @ \ {c}, !.gone = @ \ {c}, !.retain = @ \ {c},
                   !.pixmaps = {x \in @ : OwnerOf(x) # c},
                   !.gcs = {x \in @ : OwnerOf(x) # c}]

\* KillClient names a client by one of its resources; an id that names no
\* resource is a Value error.
KillClientValid(s, id) == id \in s.pixmaps \cup s.gcs

\* -------------------------------------------------------------- resolve_atom
None == [kind |-> "None", id |-> 0]
Some(id) == [kind |-> "Some", id |-> id]
Panic == [kind |-> "Panic", id |-> 0]

\* The match on property.format(): index [0] of the u32 view, or the
\* conversion of the u16 / u8 view into exactly four bytes.
DecodeId(reply) ==
    LET v == reply.value IN
    CASE reply.format = 32 ->
            IF Len(v) >= 1 THEN Some(v[1]) ELSE Panic
      [] reply.format = 16 ->
            IF Len(v) = 2 THEN Some(v[1] + 65536 * v[2]) ELSE Panic
      [] reply.format = 8 ->
            IF Len(v) = 4
            THEN Some(v[1] + 256 * v[2] + 65536 * v[3] + 16777216 * v[4])
            ELSE Panic
      [] OTHER -> Panic

\* resolve_atom that decodes the value whatever its type.
ResolveReply_anytype(reply) == DecodeId(reply)

\* resolve_atom after a successful reply.
ResolveReply(reply) ==
    IF reply.type # ATOM_PIXMAP THEN None ELSE DecodeId(reply)

\* ---------------------------------------------------------- kill_pmap_atoms
\* kill_pmap_atoms without the x == e comparison.
KillList_nodedup(x, e) ==
    (IF x.kind = "Some" THEN <<x.id>> ELSE <<>>) \o
    (IF e.kind = "Some" THEN <<e.id>> ELSE <<>>)

\* The match (xrootid, esetrootid): the resources to terminate, in order.
KillList(x, e) ==
    CASE x.kind = "Some" /\ e.kind = "Some" ->
            IF x.id = e.id THEN <<x.id>> ELSE <<x.id, e.id>>
      [] x.kind = "Some" /\ e.kind = "None" -> <<x.id>>
      [] x.kind = "None" /\ e.kind = "Some" -> <<e.id>>
      [] OTHER -> <<>>

\* ------------------------------------------------------------- inner_load
\* inner_load with the pixmap and the graphics context created only after
\* the atoms are probed and the owners evicted.
Program_evict_first ==
    << "Connect", "SelectScreen",
       "InternXroot", "InternEsetroot",
       "ResolveXroot", "ResolveEsetroot", "KillClient",
       "CreatePixmap", "CreateGc",
       "InternXrootCreate", "InternEsetrootCreate",
       "ChangePropertyXroot", "ChangePropertyEsetroot",
       "ChangeWindowAttributes", "SetCloseDownMode", "Flush", "Done" >>

\* inner_load that asks for RetainPermanent as soon as it has created its
\* pixmap and graphics context.
Program_retain_first ==
    << "Connect", "SelectScreen", "CreatePixmap", "CreateGc",
       "SetCloseDownMode",
       "InternXroot", "InternEsetroot",
       "ResolveXroot", "ResolveEsetroot", "KillClient",
       "InternXrootCreate", "InternEsetrootCreate",
       "ChangePropertyXroot", "ChangePropertyEsetroot",
       "ChangeWindowAttributes", "Flush", "Done" >>

\* The steps of inner_load in the order of its statements.
Program ==
    << "Connect", "SelectScreen", "CreatePixmap", "CreateGc",
       "InternXroot", "InternEsetroot",
       "ResolveXroot", "ResolveEsetroot", "KillClient",
       "InternXrootCreate", "InternEsetrootCreate",
       "ChangePropertyXroot", "ChangePropertyEsetroot",
       "ChangeWindowAttributes", "SetCloseDownMode", "Flush", "Done" >>

IndexOf(step) == CHOOSE i \in 1..Len(Program) : Program[i] = step
StepAfter(step) == Program[IndexOf(step) + 1]

\* inner_load that goes on after a rejected KillClient.
OnError_ignore_kill(step) == IF step = "KillClient" THEN "Continue" ELSE "Failed"

\* inner_load that goes on after a rejected ChangeWindowAttributes.
OnError_ignore_attributes(step) ==
    IF step = "ChangeWindowAttributes" THEN "Continue" ELSE "Failed"

\* The `?` after a request: what inner_load does with a failed request.
OnError(step) == "Failed"

\* A closed connection: dropping the Connection value disconnects.
Disconnect(s, c) == IF c \in s.open THEN CloseDownClient(s, c) ELSE s

\* An early return that first deletes the property it has written.
OnDrop_rollback(s, a) ==
    Disconnect([s EXCEPT !.props[XROOTPMAP] =
                    IF @ = PixProp(a.shade_pmap, 32) THEN NoProp ELSE @],
               a.connection)

\* inner_load returns early or unwinds: its locals (a) are dropped, the
\* connection among them, and nothing else is sent.
OnDrop(s, a) == Disconnect(s, a.connection)

\* ------------------------------------------------------------------- state
NoHandle ==
    [connection |-> 0, background_pixmap |-> 0, context |-> 0,
     width |-> 0, height |-> 0, depth |-> 0]
NoOutcome == [kind |-> "None", pixmap |-> 0, err |-> ""]
HandleOutcome(h) ==
    [kind |-> "Handle", pixmap |-> h.background_pixmap, err |-> ""]
ErrOutcome(e) == [kind |-> "Err", pixmap |-> 0, err |-> e]
PanicOutcome == [kind |-> "Panic", pixmap |-> 0, err |-> ""]

NoAttempt ==
    [pc |-> "None", open_method |-> "", connection |-> 0,
     width |-> 0, height |-> 0, depth |-> 0,
     shade_pmap |-> 0, gc |-> 0,
     atom_xroot_pmap |-> ATOM_NONE, atom_esetroot_pmap |-> ATOM_NONE,
     xrootid |-> None, esetrootid |-> None, kills |-> <<>>, err |-> ""]

\* A thread: where it is (idle, blocked in get_or_try_init, running the
\* initializer, in flush with the guard before or after its PutImage is
\* sent, writing the buffer, or dead after a panic), whether its last call
\* of load had to wait for another thread's initializer, and the outcome
\* of its last call of load.
IdleThread == [st |-> "idle", waited |-> FALSE, ret |-> NoOutcome]
Returned(thread, st, o) == [thread EXCEPT !.st = st, !.ret = o]
EmptyCell == [state |-> "Uninit", handle |-> NoHandle]

\* The buffer of a handle: the boxed slice of pixels, the thread that holds
\* the mutex (0: none) and the mutex's poison flag.  A pixel is "default"
\* (Pixel::default()), "new" (stored by a writer that went on to unlock) or
\* "torn" (stored by a writer that panicked with the guard).
NoBuffer == [data |-> <<>>, holder |-> 0, poisoned |-> FALSE]

\* vec![Pixel::default(); height as usize * width as usize]
BlankBuffer(width, height) ==
    [data |-> [i \in 1..(height * width) |-> "default"],
     holder |-> 0, poisoned |-> FALSE]

NoRequest == [data |-> <<>>, bytes |-> 0, width |-> 0, height |-> 0, depth |-> 0]
NoUpload == [sent |-> NoRequest, stored |-> <<>>]

VARIABLES
    srv,        \* the display server
    pstate,     \* pstate[p]: "notstarted", "alive" or "exited"
    cell,       \* cell[p]: the static HANDLE OnceCell of load
    th,         \* th[p][t]: a thread and the outcome of its last load
    att,        \* att[p]: the locals of the running (or last) inner_load
    trace,      \* trace[p]: the steps the running (or last) inner_load took
    nattempts,  \* nattempts[p]: how many times inner_load was entered
    ncalls,     \* how many times load was called, over all runs
    buffer,     \* buffer[p]: the handle's Mutex<Box<[Pixel]>>
    upload,     \* upload[p]: the last PutImage sent, the image the pixmap holds
    fres,       \* fres[p][t]: what the thread's last flush returned
    nuses       \* how many times the handle was used, over all runs

hvars == <<buffer, upload, fres, nuses>>
vars == <<srv, pstate, cell, th, att, trace, nattempts, ncalls,
          buffer, upload, fres, nuses>>

Step(name, atom, id, ok) == [step |-> name, atom |-> atom, id |-> id, ok |-> ok]

InitServer(px, pe, ax, ae, screen) ==
    [ screen |-> screen,
      atoms |-> (IF ax THEN {XROOTPMAP} ELSE {}) \cup
                (IF ae THEN {ESETROOT} ELSE {}),
      props |-> [a \in AtomNames |->
                    IF a = XROOTPMAP THEN (IF ax THEN px ELSE NoProp)
                                     ELSE (IF ae THEN pe ELSE NoProp)],
      open |-> {ForeignLive},
      gone |-> {ForeignGone},
      retain |-> {ForeignGone},
      pixmaps |-> {PixmapIdOf(ForeignGone), PixmapIdOf(ForeignLive)},
      gcs |-> {},
      back |-> 0,
      next |-> FirstConn ]

\* No process has started.
InitClient ==
    /\ pstate = [p \in Procs |-> "notstarted"]
    /\ cell = [p \in Procs |-> EmptyCell]
    /\ th = [p \in Procs |-> [t \in Threads |-> IdleThread]]
    /\ att = [p \in Procs |-> NoAttempt]
    /\ trace = [p \in Procs |-> <<>>]
    /\ nattempts = [p \in Procs |-> 0]
    /\ ncalls = 0
    /\ buffer = [p \in Procs |-> NoBuffer]
    /\ upload = [p \in Procs |-> NoUpload]
    /\ fres = [p \in Procs |-> [t \in Threads |-> ""]]
    /\ nuses = 0

Init ==
    /\ \E px \in SamplePropsXroot, pe \in SamplePropsEsetroot,
          ax \in BOOLEAN, ae \in BOOLEAN :
          /\ (~ax => px = NoProp) /\ (~ae => pe = NoProp)
          /\ srv = InitServer(px, pe, ax, ae, Head(Screens))
    /\ InitClient

\* ----------------------------------------------------------------- process
\* A run begins once every earlier run has exited.
Start(p) ==
    /\ pstate[p] = "notstarted"
    /\ \A q \in Procs : q < p => pstate[q] = "exited"
    /\ pstate' = [pstate EXCEPT ![p] = "alive"]
    /\ UNCHANGED <<srv, cell, th, att, trace, nattempts, ncalls>>
    /\ UNCHANGED hvars

\* The connection the process holds open, if any: that of the running
\* attempt, or the one kept in the handle.
ConnectionOf(p) ==
    IF att[p].pc \in {"None", "Failed", "Panicked"} THEN 0 ELSE att[p].connection

\* The process ends, with no thread of it inside load: its memory is gone
\* and the server closes its client.
Exit(p) ==
    /\ pstate[p] = "alive"
    /\ \A t \in Threads : th[p][t].st \in {"idle", "dead"}
    /\ pstate' = [pstate EXCEPT ![p] = "exited"]
    /\ srv' = Disconnect(srv, ConnectionOf(p))
    /\ cell' = [cell EXCEPT ![p] = EmptyCell]
    /\ th' = [th EXCEPT ![p] = [t \in Threads |-> IdleThread]]
    /\ att' = [att EXCEPT ![p] = NoAttempt]
    /\ trace' = [trace EXCEPT ![p] = <<>>]
    /\ nattempts' = [nattempts EXCEPT ![p] = 0]
    /\ buffer' = [buffer EXCEPT ![p] = NoBuffer]
    /\ upload' = [upload EXCEPT ![p] = NoUpload]
    /\ fres' = [fres EXCEPT ![p] = [t \in Threads |-> ""]]
    /\ UNCHANGED <<ncalls, nuses>>

\* -------------------------------------------------------------------- load
\* get_or_try_init finds the cell initialized: the cached handle.
ReturnCached(p, t, om) ==
    LET o == HandleOutcome(cell[p].handle) IN
    /\ th' = [th EXCEPT ![p][t] = Returned(@, "idle", o)]
    /\ UNCHANGED <<srv, pstate, cell, att, trace, nattempts>>
    /\ UNCHANGED hvars

\* get_or_try_init finds the cell empty and runs the closure: inner_load.
BeginInit(p, t, om, waited) ==
    /\ cell' = [cell EXCEPT ![p].state = "Running"]
    /\ th' = [th EXCEPT ![p][t] =
                [st |-> "init", waited |-> waited, ret |-> @.ret]]
    /\ att' = [att EXCEPT ![p] =
                [NoAttempt EXCEPT !.pc = Program[1], !.open_method = om]]
    /\ trace' = [trace EXCEPT ![p] = <<>>]
    /\ nattempts' = [nattempts EXCEPT ![p] = @ + 1]
    /\ UNCHANGED <<srv, pstate>>
    /\ UNCHANGED hvars

\* get_or_try_init that does not wait for a running initializer.
CellBranch_nowait(state) ==
    CASE state = "Init" -> "cached"
      [] OTHER -> "init"

\* get_or_try_init that never takes the stored value.
CellBranch_nocache(state) ==
    CASE state = "Running" -> "wait"
      [] OTHER -> "init"

\* What get_or_try_init does for each state of the cell.
CellBranch(state) ==
    CASE state = "Init" -> "cached"
      [] state = "Uninit" -> "init"
      [] OTHER -> "wait"

\* The thread has called load before.
HasCalled(thread) == thread.st # "idle" \/ thread.ret.kind # "None"

\* A thread calls load(om); the threads of a process are numbered in the
\* order of their first calls.
Load(p, t, om) ==
    /\ pstate[p] = "alive"
    /\ th[p][t].st = "idle"
    /\ \A u \in Threads : u < t => HasCalled(th[p][u])
    /\ ncalls < MaxCalls
    /\ ncalls' = ncalls + 1
    /\ \/ /\ CellBranch(cell[p].state) = "cached"
          /\ ReturnCached(p, t, om)
       \/ /\ CellBranch(cell[p].state) = "init"
          /\ BeginInit(p, t, om, FALSE)
       \/ /\ CellBranch(cell[p].state) = "wait"
          /\ th' = [th EXCEPT ![p][t] =
                      [st |-> "blocked", waited |-> TRUE, ret |-> @.ret]]
          /\ UNCHANGED <<srv, pstate, cell, att, trace, nattempts>>
          /\ UNCHANGED hvars

\* A thread blocked in get_or_try_init is woken when the running
\* initializer is done: it takes the handle, or runs its own closure.  The
\* open_method it called load with is read by nothing but that closure, so
\* it is om here, where the closure starts.
Wake(p, t, om) ==
    /\ pstate[p] = "alive"
    /\ th[p][t].st = "blocked"
    /\ UNCHANGED ncalls
    /\ \/ /\ CellBranch(cell[p].state) = "cached"
          /\ ReturnCached(p, t, om)
       \/ /\ CellBranch(cell[p].state) = "init"
          /\ BeginInit(p, t, om, TRUE)

\* ------------------------------------------------------ steps of inner_load
Running(p, t, step) ==
    /\ pstate[p] = "alive"
    /\ th[p][t].st = "init"
    /\ att[p].pc = step

\* The step went through: the server is left as s, the locals as a.
Advance(p, s, a, entries) ==
    /\ srv' = s
    /\ att' = [att EXCEPT ![p] = a]
    /\ trace' = [trace EXCEPT ![p] = @ \o entries]
    /\ UNCHANGED <<pstate, cell, th, nattempts, ncalls>>
    /\ UNCHANGED hvars

\* inner_load returns Err(e): its locals are dropped, the connection and
\* the open_method it was given among them; get_or_try_init leaves the cell
\* empty and hands e to the caller.
ReturnErr(p, t, s, entries, e) ==
    LET o == ErrOutcome(e) IN
    /\ srv' = OnDrop(s, att[p])
    /\ att' = [att EXCEPT ![p].pc = "Failed", ![p].err = e,
                          ![p].open_method = ""]
    /\ trace' = [trace EXCEPT ![p] = @ \o entries]
    /\ cell' = [cell EXCEPT ![p] = EmptyCell]
    /\ th' = [th EXCEPT ![p][t] = Returned(@, "idle", o)]
    /\ UNCHANGED <<pstate, nattempts, ncalls>>
    /\ UNCHANGED hvars

\* A request of step `att[p].pc` failed with the server left as s.
Fail(p, t, s, entries, e) ==
    IF OnError(att[p].pc) = "Failed"
    THEN ReturnErr(p, t, s, entries, e)
    ELSE Advance(p, s, [att[p] EXCEPT !.pc = StepAfter(att[p].pc)], entries)

\* inner_load panics: the thread unwinds, dropping the locals; the cell's
\* guard leaves the cell empty.
Unwind(p, t, s, entries) ==
    LET o == PanicOutcome IN
    /\ srv' = OnDrop(s, att[p])
    /\ att' = [att EXCEPT ![p].pc = "Panicked", ![p].open_method = ""]
    /\ trace' = [trace EXCEPT ![p] = @ \o entries]
    /\ cell' = [cell EXCEPT ![p] = EmptyCell]
    /\ th' = [th EXCEPT ![p][t] = Returned(@, "dead", o)]
    /\ UNCHANGED <<pstate, nattempts, ncalls>>
    /\ UNCHANGED hvars

\* How a request of the attempt may be answered: with its reply or with
\* an error, and with an error only once the server has closed the
\* attempt's connection.
Answers(p) == IF att[p].connection \in srv.open THEN BOOLEAN ELSE {FALSE}

\* Connection::connect(None)
Connect(p, t) ==
    /\ Running(p, t, "Connect")
    /\ \E ok \in BOOLEAN :
        IF ok
        THEN Advance(p, [srv EXCEPT !.open = @ \cup {srv.next}, !.next = @ + 1],
                     [att[p] EXCEPT !.pc = StepAfter("Connect"),
                                    !.connection = srv.next],
                     <<Step("Connect", "", srv.next, TRUE)>>)
        ELSE Fail(p, t, srv, <<Step("Connect", "", 0, FALSE)>>, "XCBInteral")

\* get_setup().roots().nth(screen_number).ok_or(NoScreenFound): the setup
\* has a root of that number, or it has not.
SelectScreen(p, t) ==
    /\ Running(p, t, "SelectScreen")
    /\ \E found \in BOOLEAN :
        IF found
        THEN Advance(p, srv,
                     [att[p] EXCEPT !.pc = StepAfter("SelectScreen"),
                                    !.width = srv.screen.width,
                                    !.height = srv.screen.height,
                                    !.depth = srv.screen.root_depth],
                     <<Step("SelectScreen", "", 0, TRUE)>>)
        ELSE ReturnErr(p, t, srv, <<Step("SelectScreen", "", 0, FALSE)>>,
                       "NoScreenFound")

\* CreatePixmap for generate_id()
CreatePixmap(p, t) ==
    /\ Running(p, t, "CreatePixmap")
    /\ LET pid == PixmapIdOf(att[p].connection) IN
       \E ok \in Answers(p) :
        IF ok
        THEN Advance(p, [srv EXCEPT !.pixmaps = @ \cup {pid}],
                     [att[p] EXCEPT !.pc = StepAfter("CreatePixmap"),
                                    !.shade_pmap = pid],
                     <<Step("CreatePixmap", "", pid, TRUE)>>)
        ELSE Fail(p, t, srv, <<Step("CreatePixmap", "", pid, FALSE)>>,
                  "XCBInteral")

\* CreateGc for generate_id()
CreateGc(p, t) ==
    /\ Running(p, t, "CreateGc")
    /\ LET cid == GcIdOf(att[p].connection) IN
       \E ok \in Answers(p) :
        IF ok
        THEN Advance(p, [srv EXCEPT !.gcs = @ \cup {cid}],
                     [att[p] EXCEPT !.pc = StepAfter("CreateGc"), !.gc = cid],
                     <<Step("CreateGc", "", cid, TRUE)>>)
        ELSE Fail(p, t, srv, <<Step("CreateGc", "", cid, FALSE)>>, "XCBInteral")

\* The atoms an InternAtom may answer: the server's, or in creating mode
\* ATOM_NONE from a server that refuses the registration.
InternAtomReplies(s, name, only_if_exists) ==
    {InternAtomReply(s, name, only_if_exists)} \cup
    (IF only_if_exists THEN {} ELSE {ATOM_NONE})

\* cookie_request!(InternAtom { name, only_if_exists }).atom(), assigned
\* to the local variable `local`.
InternAtom(p, t, step, name, only_if_exists, local) ==
    /\ Running(p, t, step)
    /\ \E ok \in Answers(p) :
        IF ok
        THEN \E reply \in InternAtomReplies(srv, name, only_if_exists) :
                LET s == IF reply = ATOM_NONE THEN srv
                         ELSE InternAtomEffect(srv, name, only_if_exists)
                IN  Advance(p, s, [att[p] EXCEPT ![local] = reply, !.pc = StepAfter(step)],
                            <<Step(step, reply, 0, TRUE)>>)
        ELSE Fail(p, t, srv, <<Step(step, name, 0, FALSE)>>, "XCBInteral")

InternXroot(p, t) ==
    InternAtom(p, t, "InternXroot", XROOTPMAP, TRUE, "atom_xroot_pmap")

InternEsetroot(p, t) ==
    InternAtom(p, t, "InternEsetroot", ESETROOT, TRUE, "atom_esetroot_pmap")

\* The locals of kill_pmap_atoms once resolve_atom has returned r for the
\* local variable `local`; with both ids read, the match picks the requests.
Resolved(a, local, r) ==
    IF local = "xrootid" THEN [a EXCEPT !.xrootid = r]
    ELSE [a EXCEPT !.esetrootid = r, !.kills = KillList(a.xrootid, r)]

\* resolve_atom(connection, root, atom), assigned to `local`.
ResolveAtom(p, t, step, atom, local) ==
    /\ Running(p, t, step)
    /\ IF atom = ATOM_NONE
       THEN Advance(p, srv,
                    [Resolved(att[p], local, None) EXCEPT !.pc = StepAfter(step)],
                    <<>>)
       ELSE \E ok \in Answers(p) :
            LET r == ResolveReply(GetPropertyReply(srv, atom)) IN
            IF ~ok
            THEN Fail(p, t, srv, <<Step("GetProperty", atom, 0, FALSE)>>,
                      "XCBInteral")
            ELSE IF r.kind = "Panic"
            THEN Unwind(p, t, srv, <<Step("GetProperty", atom, 0, TRUE)>>)
            ELSE Advance(p, srv,
                         [Resolved(att[p], local, r) EXCEPT !.pc = StepAfter(step)],
                         <<Step("GetProperty", atom, r.id, TRUE)>>)

ResolveXroot(p, t) ==
    ResolveAtom(p, t, "ResolveXroot", att[p].atom_xroot_pmap, "xrootid")

ResolveEsetroot(p, t) ==
    ResolveAtom(p, t, "ResolveEsetroot", att[p].atom_esetroot_pmap, "esetrootid")

\* void_request!(KillClient { resource }) for the next resource of the
\* match; with none left kill_pmap_atoms returns Ok(()).
KillClient(p, t) ==
    /\ Running(p, t, "KillClient")
    /\ IF att[p].kills = <<>>
       THEN Advance(p, srv, [att[p] EXCEPT !.pc = StepAfter("KillClient")],
                    <<Step("KillDone", "", 0, TRUE)>>)
       ELSE LET id == Head(att[p].kills) IN
            \E ok \in Answers(p) :
             IF ok /\ KillClientValid(srv, id)
             THEN Advance(p, CloseDownClient(srv, OwnerOf(id)),
                          [att[p] EXCEPT !.kills = Tail(@)],
                          <<Step("KillClient", "", id, TRUE)>>)
             ELSE Fail(p, t, srv, <<Step("KillClient", "", id, FALSE)>>,
                       "XCBInteral")

InternXrootCreate(p, t) ==
    InternAtom(p, t, "InternXrootCreate", XROOTPMAP, FALSE, "atom_xroot_pmap")

\* The check after the creating InternAtoms that looks at the second
\* atom only.
AtomCreationFailed_second_only(x, e) == e = ATOM_NONE

\* atom_xroot_pmap == ATOM_NONE || atom_esetroot_pmap == ATOM_NONE
AtomCreationFailed(x, e) == x = ATOM_NONE \/ e = ATOM_NONE

\* The second creating InternAtom and the check of both atoms after it.
InternEsetrootCreate(p, t) ==
    /\ Running(p, t, "InternEsetrootCreate")
    /\ \E ok \in Answers(p) :
        IF ok
        THEN \E reply \in InternAtomReplies(srv, ESETROOT, FALSE) :
                LET s == IF reply = ATOM_NONE THEN srv
                         ELSE InternAtomEffect(srv, ESETROOT, FALSE)
                    e == <<Step("InternEsetrootCreate", reply, 0, TRUE)>>
                IN  IF AtomCreationFailed(att[p].atom_xroot_pmap, reply)
                    THEN ReturnErr(p, t, s, e, "FailedRootAtomCreation")
                    ELSE Advance(p, s,
                                 [att[p] EXCEPT !.atom_esetroot_pmap = reply,
                                     !.pc = StepAfter("InternEsetrootCreate")],
                                 e)
        ELSE Fail(p, t, srv, <<Step("InternEsetrootCreate", ESETROOT, 0, FALSE)>>,
                  "XCBInteral")

\* void_request!(ChangeProperty { property, Replace, PIXMAP, [shade_pmap] })
ChangeProperty(p, t, step, atom) ==
    /\ Running(p, t, step)
    /\ \E ok \in Answers(p) :
        IF ok
        THEN Advance(p, ChangePropertyReplace(srv, atom, att[p].shade_pmap),
                     [att[p] EXCEPT !.pc = StepAfter(step)],
                     <<Step("ChangeProperty", atom, att[p].shade_pmap, TRUE)>>)
        ELSE Fail(p, t, srv,
                  <<Step("ChangeProperty", atom, att[p].shade_pmap, FALSE)>>,
                  "XCBInteral")

ChangePropertyXroot(p, t) ==
    ChangeProperty(p, t, "ChangePropertyXroot", att[p].atom_xroot_pmap)

ChangePropertyEsetroot(p, t) ==
    ChangeProperty(p, t, "ChangePropertyEsetroot", att[p].atom_esetroot_pmap)

\* void_request!(ChangeWindowAttributes { root, [BackPixmap(shade_pmap)] })
ChangeWindowAttributes(p, t) ==
    /\ Running(p, t, "ChangeWindowAttributes")
    /\ \E ok \in Answers(p) :
        IF ok
        THEN Advance(p, [srv EXCEPT !.back = att[p].shade_pmap],
                     [att[p] EXCEPT !.pc = StepAfter("ChangeWindowAttributes")],
                     <<Step("ChangeWindowAttributes", "", att[p].shade_pmap, TRUE)>>)
        ELSE Fail(p, t, srv,
                  <<Step("ChangeWindowAttributes", "", att[p].shade_pmap, FALSE)>>,
                  "XCBInteral")

\* SetCloseDownMode with the default mode.
CloseDownModeSent_destroy == "DestroyAll"

\* The mode of the SetCloseDownMode request.
CloseDownModeSent == "RetainPermanent"

SetCloseDownModeEffect(s, c, mode) ==
    IF mode = "RetainPermanent" THEN [s EXCEPT !.retain = @ \cup {c}]
                                ELSE [s EXCEPT !.retain = @ \ {c}]

\* void_request!(SetCloseDownMode { mode: RetainPermanent })
SetCloseDownMode(p, t) ==
    /\ Running(p, t, "SetCloseDownMode")
    /\ \E ok \in Answers(p) :
        IF ok
        THEN Advance(p, SetCloseDownModeEffect(srv, att[p].connection,
                                               CloseDownModeSent),
                     [att[p] EXCEPT !.pc = StepAfter("SetCloseDownMode")],
                     <<Step("SetCloseDownMode", "", 0, TRUE)>>)
        ELSE Fail(p, t, srv, <<Step("SetCloseDownMode", "", 0, FALSE)>>,
                  "XCBInteral")

\* connection.flush(), then the handle is built and returned: the cell
\* keeps it and load hands it to the caller.
Flush(p, t) ==
    /\ Running(p, t, "Flush")
    /\ \E ok \in Answers(p) :
        IF ok
        THEN LET h == [connection |-> att[p].connection,
                       background_pixmap |-> att[p].shade_pmap,
                       context |-> att[p].gc,
                       width |-> att[p].width,
                       height |-> att[p].height,
                       depth |-> att[p].depth]
                 o == HandleOutcome(h)
             IN  /\ cell' = [cell EXCEPT ![p] = [state |-> "Init", handle |-> h]]
                 /\ th' = [th EXCEPT ![p][t] = Returned(@, "idle", o)]
                 /\ att' = [att EXCEPT ![p].pc = StepAfter("Flush"),
                                       ![p].open_method = ""]
                 /\ trace' = [trace EXCEPT ![p] = Append(@, Step("Flush", "", 0, TRUE))]
                 /\ buffer' = [buffer EXCEPT ![p] =
                                  BlankBuffer(att[p].width, att[p].height)]
                 /\ UNCHANGED <<srv, pstate, nattempts, ncalls>>
                 /\ UNCHANGED <<upload, fres, nuses>>
        ELSE Fail(p, t, srv, <<Step("Flush", "", 0, FALSE)>>, "XCBInteral")

\* -------------------------------------------------------------------- Next
\* What a process does once it has started.
Run(p) ==
        \/ Exit(p)
        \/ \E t \in Threads :
            \/ \E om \in OpenMethods : Load(p, t, om)
            \/ \E om \in OpenMethods : Wake(p, t, om)
            \/ Connect(p, t)
            \/ SelectScreen(p, t)
            \/ CreatePixmap(p, t)
            \/ CreateGc(p, t)
            \/ InternXroot(p, t)
            \/ InternEsetroot(p, t)
            \/ ResolveXroot(p, t)
            \/ ResolveEsetroot(p, t)
            \/ KillClient(p, t)
            \/ InternXrootCreate(p, t)
            \/ InternEsetrootCreate(p, t)
            \/ ChangePropertyXroot(p, t)
            \/ ChangePropertyEsetroot(p, t)
            \/ ChangeWindowAttributes(p, t)
            \/ SetCloseDownMode(p, t)
            \/ Flush(p, t)

Next == \E p \in Procs : Start(p) \/ Run(p)

Spec == Init /\ [][Next]_vars

\* ------------------------------------------------------- use of the handle
\* size_of::<Pixel>(): three u8 fields, repr(C).
PixelBytes == 3

\* flush's PutImage: ZPixmap, the handle's gc, pixmap, width, height and
\* depth, and as data the bytes of the pixel slice (as_byte_slice).
PutImageRequest(h, data) ==
    [data |-> data, bytes |-> PixelBytes * Len(data),
     width |-> h.width, height |-> h.height, depth |-> h.depth]

\* The server takes a ZPixmap image for a drawable and a graphics context
\* that exist, of the drawable's depth, and of the length its pixmap
\* format gives an image of that size; anything else is an error reply.
PutImageValid(s, h, r) ==
    /\ h.connection \in s.open
    /\ h.background_pixmap \in s.pixmaps
    /\ h.context \in s.gcs
    /\ r.depth = s.screen.root_depth
    /\ r.bytes * 8 = r.width * r.height * s.screen.bits_per_pixel

\* lock() of a poisoned mutex answered with unwrap().
OnPoison_unwrap == "unwrap"

\* lock().unwrap_or_else(|e| e.into_inner())
OnPoison == "into_inner"

\* A thread that got the handle from load may use it.
MayUse(p, t) ==
    /\ pstate[p] = "alive"
    /\ cell[p].state = "Init"
    /\ th[p][t].st = "idle"
    /\ th[p][t].ret.kind = "Handle"
    /\ nuses < MaxUses

\* flush, first statement: self.buffer.lock() waits for the mutex and gets
\* the guard, from a poisoned mutex too.
FlushLock(p, t) ==
    /\ MayUse(p, t)
    /\ buffer[p].holder = 0
    /\ nuses' = nuses + 1
    /\ IF buffer[p].poisoned /\ OnPoison # "into_inner"
       THEN /\ th' = [th EXCEPT ![p][t].st = "dead"]
            /\ UNCHANGED <<buffer, fres>>
       ELSE /\ th' = [th EXCEPT ![p][t].st = "flush_locked"]
            /\ buffer' = [buffer EXCEPT ![p].holder = t]
            /\ fres' = [fres EXCEPT ![p][t] = ""]
    /\ UNCHANGED <<srv, pstate, cell, att, trace, nattempts, ncalls, upload>>

\* send_and_check_request, first half: the PutImage is serialized from the
\* guarded slice and sent.
FlushSend(p, t) ==
    /\ pstate[p] = "alive"
    /\ th[p][t].st = "flush_locked"
    /\ th' = [th EXCEPT ![p][t].st = "flush_sent"]
    /\ upload' = [upload EXCEPT ![p].sent =
                    PutImageRequest(cell[p].handle, buffer[p].data)]
    /\ UNCHANGED <<srv, pstate, cell, att, trace, nattempts, ncalls,
                   buffer, fres, nuses>>

\* send_and_check_request, second half: the thread waits for the server's
\* answer to the request; then `?` or Ok(()) returns and the guard, a
\* local of flush, is dropped.
FlushReply(p, t) ==
    /\ pstate[p] = "alive"
    /\ th[p][t].st = "flush_sent"
    /\ th' = [th EXCEPT ![p][t].st = "idle"]
    /\ buffer' = [buffer EXCEPT ![p].holder = 0]
    /\ \E ok \in BOOLEAN :
        IF ok /\ PutImageValid(srv, cell[p].handle, upload[p].sent)
        THEN /\ upload' = [upload EXCEPT ![p].stored = upload[p].sent.data]
             /\ fres' = [fres EXCEPT ![p][t] = "Ok"]
        ELSE /\ fres' = [fres EXCEPT ![p][t] = "XCBInteral"]
             /\ UNCHANGED upload
    /\ UNCHANGED <<srv, pstate, cell, att, trace, nattempts, ncalls, nuses>>

\* A user of the handle locks the public buffer to write pixels.
WriteLock(p, t) ==
    /\ MayUse(p, t)
    /\ buffer[p].holder = 0
    /\ nuses' = nuses + 1
    /\ th' = [th EXCEPT ![p][t].st = "writing"]
    /\ buffer' = [buffer EXCEPT ![p].holder = t]
    /\ UNCHANGED <<srv, pstate, cell, att, trace, nattempts, ncalls,
                   upload, fres>>

\* The writer stores its pixels and drops the guard.
WriteDone(p, t) ==
    /\ pstate[p] = "alive"
    /\ th[p][t].st = "writing"
    /\ th' = [th EXCEPT ![p][t].st = "idle"]
    /\ buffer' = [buffer EXCEPT ![p].holder = 0,
                                ![p].data = [i \in DOMAIN @ |-> "new"]]
    /\ UNCHANGED <<srv, pstate, cell, att, trace, nattempts, ncalls,
                   upload, fres, nuses>>

\* The writer panics half way: the guard is dropped while the thread
\* unwinds, which poisons the mutex.
WritePanic(p, t) ==
    /\ pstate[p] = "alive"
    /\ th[p][t].st = "writing"
    /\ th' = [th EXCEPT ![p][t].st = "dead"]
    /\ buffer' = [buffer EXCEPT ![p].holder = 0, ![p].poisoned = TRUE,
                                ![p].data = [i \in DOMAIN @ |-> "torn"]]
    /\ UNCHANGED <<srv, pstate, cell, att, trace, nattempts, ncalls,
                   upload, fres, nuses>>

\* A server with any of the screens, on which neither convention atom is
\* registered yet.
InitUse ==
    /\ \E i \in 1..Len(Screens) :
          srv = InitServer(NoProp, NoProp, FALSE, FALSE, Screens[i])
    /\ InitClient

NextUse ==
    \/ Next
    \/ \E p \in Procs : \E t \in Threads :
        \/ FlushLock(p, t)
        \/ FlushSend(p, t)
        \/ FlushReply(p, t)
        \/ WriteLock(p, t)
        \/ WriteDone(p, t)
        \/ WritePanic(p, t)

\* The program with its users: load, then flush and buffer writes.
SpecUse == InitUse /\ [][NextUse]_vars

\* ================================================================== claims
\* The entries of the attempt's trace with the given step name.
Entries(p, name) == SelectSeq(trace[p], LAMBDA r : r.step = name)
HasEntry(p, name) == Entries(p, name) # <<>>
Last(seq) == seq[Len(seq)]

\* The termination requests the evictor is to issue for a pair of ids.
EvictionCount(x, e) ==
    IF x.kind = "None" /\ e.kind = "None" THEN 0
    ELSE IF x.kind = "None" \/ e.kind = "None" THEN 1
    ELSE IF x.id = e.id THEN 1 ELSE 2

\* C1: for the pair of ids kill_pmap_atoms read, it never issues more
\* KillClient requests than (none, none) -> 0, one present -> 1, both
\* present and different -> 2, both present and equal -> 1, and when it
\* returns Ok it has issued exactly that many, each for a different
\* resource; with both ids absent it issues none and so cannot fail on one.
C1_EvictionCounts ==
    \A p \in Procs :
        LET kills == Entries(p, "KillClient")
            want == EvictionCount(att[p].xrootid, att[p].esetrootid)
        IN  /\ Len(kills) <= want
            /\ \A i, j \in 1..Len(kills) : i # j => kills[i].id # kills[j].id
            /\ \A i \in 1..Len(kills) :
                  kills[i].id \in {att[p].xrootid.id, att[p].esetrootid.id}
            /\ HasEntry(p, "KillDone") =>
                  /\ Len(kills) = want
                  /\ \A i \in 1..Len(kills) : kills[i].ok

\* C1 witness: both properties decode to the same id (stored with
\* different formats) and the evictor has returned after one request.
C1_Witness ==
    \E p \in Procs :
        /\ att[p].xrootid.kind = "Some" /\ att[p].esetrootid.kind = "Some"
        /\ att[p].xrootid.id = att[p].esetrootid.id
        /\ HasEntry(p, "KillDone")
        /\ Len(Entries(p, "KillClient")) = 1

\* C2: while a process holds a handle returned by load, both root-window
\* properties hold exactly one value of type PIXMAP, the id of the pixmap
\* that load created (the handle's background_pixmap), whatever they held
\* before.
C2_BothAtomsHoldNewPixmap ==
    \A p \in Procs : \A t \in Threads :
        th[p][t].ret.kind = "Handle" =>
            /\ cell[p].state = "Init"
            /\ th[p][t].ret.pixmap = cell[p].handle.background_pixmap
            /\ cell[p].handle.background_pixmap =
                  PixmapIdOf(cell[p].handle.connection)
            /\ \A a \in AtomNames :
                  srv.props[a] = [type |-> ATOM_PIXMAP, format |-> 32,
                                  value |-> <<th[p][t].ret.pixmap>>]

\* C2 witness: load returned a handle although _XROOTPMAP_ID held another
\* pixmap and ESETROOT_PMAP_ID a value that was no pixmap id.
C2_Witness ==
    \E p \in Procs : \E t \in Threads :
        /\ th[p][t].ret.kind = "Handle"
        /\ att[p].xrootid.kind = "Some"
        /\ att[p].esetrootid.kind = "None"
        /\ \E i \in 1..Len(trace[p]) :
              trace[p][i].step = "GetProperty" /\ trace[p][i].atom = ESETROOT

C5_LoadFromFileFails ==
    [][ \A p \in Procs :
          att[p].open_method = "LoadFromFile" =>
              /\ att'[p].pc # "Done"
              /\ cell'[p].state # "Init" ]_vars

\* The positions in the attempt's trace of the entries with a step name.
Positions(p, names) == {i \in 1..Len(trace[p]) : trace[p][i].step \in names}

\* C6: in every attempt a ChangeProperty is sent only after kill_pmap_atoms
\* has returned Ok, that is after every KillClient it sent was
\* acknowledged, and no KillClient follows a ChangeProperty; a rejected
\* KillClient is the last request of the attempt, which has failed with
\* that error, has sent the request for that resource once, and has
\* written neither atom.
C6_EvictionBeforePublication ==
    \A p \in Procs :
        LET kills == Positions(p, {"KillClient"})
            done == Positions(p, {"KillDone"})
            writes == Positions(p, {"ChangeProperty"})
        IN  /\ \A w \in writes :
                  /\ \E d \in done : d < w
                  /\ \A k \in kills : k < w /\ trace[p][k].ok
            /\ \A k \in kills : \A d \in done : k < d
            /\ \A k \in kills :
                  ~trace[p][k].ok =>
                      /\ k = Len(trace[p])
                      /\ att[p].pc = "Failed" /\ att[p].err = "XCBInteral"
                      /\ writes = {} /\ done = {}
                      /\ \A j \in kills : j # k => trace[p][j].id # trace[p][k].id

\* C6 witness: of two termination requests the second was rejected and
\* the attempt has failed.
C6_Witness ==
    \E p \in Procs :
        /\ att[p].pc = "Failed"
        /\ Len(Entries(p, "KillClient")) = 2
        /\ ~Last(trace[p]).ok /\ Last(trace[p]).step = "KillClient"

\* The state of the attempt that a step of the trace belongs to, in the
\* order of C7: pixmap and graphics context after the eviction.
StageClaimed(step) ==
    CASE step = "Connect" -> 1
      [] step = "SelectScreen" -> 2
      [] step \in {"InternXroot", "InternEsetroot", "GetProperty"} -> 3
      [] step \in {"KillClient", "KillDone"} -> 4
      [] step \in {"CreatePixmap", "CreateGc"} -> 5
      [] step \in {"InternXrootCreate", "InternEsetrootCreate",
                   "ChangeProperty", "ChangeWindowAttributes"} -> 6
      [] OTHER -> 7

\* The same with the pixmap and the graphics context created right after
\* the screen is selected.
StageAmended(step) ==
    CASE step = "Connect" -> 1
      [] step = "SelectScreen" -> 2
      [] step \in {"CreatePixmap", "CreateGc"} -> 3
      [] step \in {"InternXroot", "InternEsetroot", "GetProperty"} -> 4
      [] step \in {"KillClient", "KillDone"} -> 5
      [] step \in {"InternXrootCreate", "InternEsetrootCreate",
                   "ChangeProperty", "ChangeWindowAttributes"} -> 6
      [] OTHER -> 7

\* C7 as stated: the steps of an attempt follow the order Connected,
\* ScreenSelected, AtomsProbed, OwnersEvicted, PixmapCreated,
\* PropertiesPublished, Persisted.
C7_Original ==
    \A p \in Procs : \A i \in 1..(Len(trace[p]) - 1) :
        StageClaimed(trace[p][i].step) <= StageClaimed(trace[p][i + 1].step)

\* C7 (amended): the steps of every attempt follow the order Disconnected,
\* Connected, ScreenSelected, PixmapCreated, AtomsProbed, OwnersEvicted,
\* PropertiesPublished, Persisted: the pixmap and its graphics context are
\* created before the convention atoms are probed and the previous owners
\* evicted, and an attempt that ends with the handle went through every
\* one of these states.
C7_StateOrder ==
    \A p \in Procs :
        /\ \A i \in 1..(Len(trace[p]) - 1) :
              StageAmended(trace[p][i].step) <= StageAmended(trace[p][i + 1].step)
        /\ att[p].pc = "Done" =>
              {StageAmended(trace[p][i].step) : i \in 1..Len(trace[p])} = 1..7

\* C7 witness: an attempt that ended with the handle and evicted two
\* owners after it had created the pixmap.
C7_Witness ==
    \E p \in Procs :
        /\ att[p].pc = "Done"
        /\ Len(Entries(p, "KillClient")) = 2

\* C8: a failed request is the last step of its attempt: the attempt is in
\* Failed, with no thread running it, the cell left empty, the connection
\* closed and the error handed to the thread that ran it; and no attempt
\* sends the same request twice.
C8_ErrorIsTerminal ==
    \A p \in Procs :
        /\ \A i \in 1..Len(trace[p]) :
              ~trace[p][i].ok => i = Len(trace[p]) /\ att[p].pc = "Failed"
        /\ att[p].pc = "Failed" =>
              /\ cell[p].state = "Uninit"
              /\ \A t \in Threads : th[p][t].st # "init"
              /\ \E t \in Threads : th[p][t].ret = ErrOutcome(att[p].err)
              /\ att[p].connection \notin srv.open
              /\ att[p].err \in {"XCBInteral", "NoScreenFound",
                                 "FailedRootAtomCreation"}
              /\ att[p].err # "FailedRootAtomCreation" => ~Last(trace[p]).ok
        /\ \A j \in 1..Len(trace[p]) : \A i \in 1..(j - 1) :
              trace[p][i].step = trace[p][j].step =>
                  \/ trace[p][i].atom # trace[p][j].atom
                  \/ trace[p][i].id # trace[p][j].id

\* C8 witness: the attempt failed at its close-down-mode request, after
\* both atoms were written.
C8_Witness ==
    \E p \in Procs :
        /\ att[p].pc = "Failed"
        /\ Last(trace[p]).step = "SetCloseDownMode" /\ ~Last(trace[p]).ok
        /\ \E t \in Threads : th[p][t].ret = ErrOutcome("XCBInteral")

\* The attempt of p failed at the write of ESETROOT_PMAP_ID.
FailedAtEsetrootWrite(p) ==
    /\ att[p].pc = "Failed"
    /\ Last(trace[p]).step = "ChangeProperty"
    /\ Last(trace[p]).atom = ESETROOT
    /\ ~Last(trace[p]).ok

\* C9: when the write of _XROOTPMAP_ID was acknowledged and the write of
\* ESETROOT_PMAP_ID is rejected, load returns the error, the failed write
\* is the last request of the attempt (no compensating write or delete),
\* _XROOTPMAP_ID holds the new pixmap id, and ESETROOT_PMAP_ID is left as
\* it was: only an acknowledged write of it ever changes it.
C9_NoRollback ==
    /\ [](\A p \in Procs :
            FailedAtEsetrootWrite(p) =>
                /\ srv.props[XROOTPMAP] = PixProp(att[p].shade_pmap, 32)
                /\ \E t \in Threads : th[p][t].ret = ErrOutcome("XCBInteral")
                /\ cell[p].state = "Uninit")
    /\ [][ /\ srv'.props[ESETROOT] # srv.props[ESETROOT] =>
                \E p \in Procs :
                    /\ att[p].pc = "ChangePropertyEsetroot"
                    /\ att'[p].pc = StepAfter("ChangePropertyEsetroot")
           /\ \A p \in Procs :
                (att[p].pc = "ChangePropertyEsetroot" /\ att'[p].pc = "Failed")
                    => srv'.props = srv.props ]_vars

\* C9 witness: the attempt failed at the second write; _XROOTPMAP_ID holds
\* the new id and ESETROOT_PMAP_ID still the foreign CARDINAL value.
C9_Witness ==
    \E p \in Procs :
        /\ FailedAtEsetrootWrite(p)
        /\ srv.props[XROOTPMAP] = PixProp(att[p].shade_pmap, 32)
        /\ srv.props[ESETROOT].type = ATOM_CARDINAL

\* C10: while a process holds the handle its session is in retain-permanent
\* mode; a terminated session in that mode keeps its pixmap; and when the
\* process ends, the pixmap and graphics context of the handle still exist
\* and both convention atoms still hold the pixmap's id.
C10_RetainedPastDisconnect ==
    /\ [](\A p \in Procs :
            cell[p].state = "Init" =>
                /\ cell[p].handle.connection \in srv.open \cap srv.retain
                /\ cell[p].handle.background_pixmap \in srv.pixmaps)
    /\ [](\A c \in srv.gone : c \in srv.retain /\ PixmapIdOf(c) \in srv.pixmaps)
    /\ [][ \A p \in Procs :
            (cell[p].state = "Init" /\ pstate'[p] = "exited") =>
                LET h == cell[p].handle IN
                /\ h.connection \in srv'.gone
                /\ h.background_pixmap \in srv'.pixmaps
                /\ h.context \in srv'.gcs
                /\ \A a \in AtomNames :
                      srv'.props[a] = PixProp(h.background_pixmap, 32) ]_vars

\* C10 witness: the second run read from both atoms the id of the pixmap
\* that the first run's session left behind, and its termination request
\* for that id was acknowledged.
C10_Witness ==
    \E p \in Procs :
        /\ p > 1 /\ pstate[p] = "alive"
        /\ att[p].xrootid.kind = "Some" /\ att[p].esetrootid = att[p].xrootid
        /\ OwnerOf(att[p].xrootid.id) >= FirstConn
        /\ \E i \in 1..Len(trace[p]) :
              /\ trace[p][i].step = "KillClient"
              /\ trace[p][i].id = att[p].xrootid.id
              /\ trace[p][i].ok

\* C14 as stated: an attempt of load(KeepExisting) sends a termination
\* request for a pixmap id it read from a convention atom only after it
\* has fetched the image of that pixmap (GetImage) and uploaded it into the
\* new pixmap (PutImage).
C14_KeepExistingCopiesFirst ==
    \A p \in Procs :
        att[p].open_method = "KeepExisting" =>
            \A k \in Positions(p, {"KillClient"}) :
                \E g \in Positions(p, {"GetImage"}) :
                    \E u \in Positions(p, {"PutImage"}) :
                        /\ g < u /\ u < k
                        /\ trace[p][g].id = trace[p][k].id
                        /\ trace[p][u].id = att[p].shade_pmap

\* The requests that publish: the property writes, the background install
\* and the close-down mode.
PublishingSteps ==
    {"ChangeProperty", "ChangeWindowAttributes", "SetCloseDownMode"}

\* C15: an attempt in which a creating InternAtom has answered ATOM_NONE
\* has failed with FailedRootAtomCreation by the time the second creating
\* InternAtom is answered, and has sent no property write, no background
\* install and no close-down-mode request; that error is returned in no
\* other case; and every property write names an atom that is not
\* ATOM_NONE.
C15_RefusedAtomFailsLoad ==
    \A p \in Procs :
        LET refused == {i \in Positions(p, {"InternXrootCreate",
                                            "InternEsetrootCreate"}) :
                            trace[p][i].ok /\ trace[p][i].atom = ATOM_NONE}
            second == {i \in Positions(p, {"InternEsetrootCreate"}) :
                            trace[p][i].ok}
        IN  /\ (refused # {} /\ second # {}) =>
                  /\ att[p].pc = "Failed"
                  /\ att[p].err = "FailedRootAtomCreation"
                  /\ Last(trace[p]).step = "InternEsetrootCreate"
                  /\ \E t \in Threads :
                        th[p][t].ret = ErrOutcome("FailedRootAtomCreation")
            /\ refused # {} => Positions(p, PublishingSteps) = {}
            /\ (att[p].pc = "Failed" /\ att[p].err = "FailedRootAtomCreation")
                  => refused # {} /\ second # {}
            /\ \A w \in Positions(p, {"ChangeProperty"}) :
                  /\ trace[p][w].atom \in AtomNames
                  /\ trace[p][w].atom \in srv.atoms

\* C15 witness: the server refused _XROOTPMAP_ID and registered
\* ESETROOT_PMAP_ID, and load has returned FailedRootAtomCreation.
C15_Witness ==
    \E p \in Procs :
        /\ att[p].pc = "Failed" /\ att[p].err = "FailedRootAtomCreation"
        /\ att[p].atom_xroot_pmap = ATOM_NONE
        /\ Last(trace[p]).step = "InternEsetrootCreate"
        /\ Last(trace[p]).atom = ESETROOT
        /\ ESETROOT \in srv.atoms

\* The attempt of p has gone past the given step of inner_load.
Past(p, step) ==
    /\ att[p].pc \in {Program[i] : i \in 1..Len(Program)}
    /\ IndexOf(att[p].pc) > IndexOf(step)

\* What the attempt of p knows of a convention atom: the step that probed
\* it and the id that was read from its property.
ProbeStep(name) == IF name = XROOTPMAP THEN "InternXroot" ELSE "InternEsetroot"
IdRead(p, name) == IF name = XROOTPMAP THEN att[p].xrootid ELSE att[p].esetrootid

\* The attempt of p has not written the property, which is therefore as
\* the attempt read it.
Unwritten(p, name) ==
    \A w \in Positions(p, {"ChangeProperty"}) :
        ~(trace[p][w].atom = name /\ trace[p][w].ok)

\* C16: no GetProperty is sent for ATOM_NONE; an atom whose probe answered
\* ATOM_NONE is read as absent with no GetProperty sent for its name; a
\* property whose type is not PIXMAP is read as absent; and every
\* termination request names an id that was read from a convention atom
\* whose property has the type PIXMAP.
C16_AbsentWithoutPixmapType ==
    \A p \in Procs :
        /\ \A i \in Positions(p, {"GetProperty"}) : trace[p][i].atom \in AtomNames
        /\ \A name \in AtomNames :
              /\ (\E i \in Positions(p, {ProbeStep(name)}) :
                      trace[p][i].ok /\ trace[p][i].atom = ATOM_NONE)
                    => /\ IdRead(p, name) = None
                       /\ \A i \in Positions(p, {"GetProperty"}) :
                              trace[p][i].atom # name
              /\ (srv.props[name].type # ATOM_PIXMAP /\ Unwritten(p, name))
                    => IdRead(p, name) = None
        /\ \A k \in Positions(p, {"KillClient"}) :
              \E name \in AtomNames :
                  /\ IdRead(p, name) = Some(trace[p][k].id)
                  /\ Unwritten(p, name) => srv.props[name].type = ATOM_PIXMAP

\* C16 witness: _XROOTPMAP_ID is not registered and ESETROOT_PMAP_ID holds
\* a CARDINAL that is the id of an existing pixmap; the evictor has read
\* both as absent, with one GetProperty, and returned without a
\* termination request.
C16_Witness ==
    \E p \in Procs :
        /\ Past(p, "KillClient")
        /\ Unwritten(p, ESETROOT)
        /\ srv.props[ESETROOT].type = ATOM_CARDINAL
        /\ srv.props[ESETROOT].value[1] \in srv.pixmaps
        /\ \E i \in Positions(p, {"InternXroot"}) : trace[p][i].atom = ATOM_NONE
        /\ Cardinality(Positions(p, {"GetProperty"})) = 1
        /\ Positions(p, {"KillClient"}) = {}
        /\ IdRead(p, XROOTPMAP) = None /\ IdRead(p, ESETROOT) = None

\* C17 as stated: an attempt that has returned the handle has sent, after
\* its ChangeWindowAttributes, a ClearArea for the root window.
C17_RepaintBeforeReturn ==
    \A p \in Procs :
        att[p].pc = "Done" =>
            \E w \in Positions(p, {"ChangeWindowAttributes"}) :
                \E c \in Positions(p, {"ClearArea"}) :
                    w < c /\ trace[p][c].ok

\* The acknowledged entries of the given step in the attempt's trace.
Acked(p, name) == {i \in Positions(p, {name}) : trace[p][i].ok}

\* C19: in every attempt the SetCloseDownMode request is sent only after
\* both convention atoms were written with the id of the new pixmap and
\* that pixmap was installed as the root background, and nothing but the
\* flush of the connection follows it; until it is acknowledged the
\* session is not in retain mode, so that an attempt that has failed or
\* panicked before leaves neither its pixmap nor its graphics context on
\* the server.
C19_RetainIsLastStep ==
    \A p \in Procs :
        LET a == att[p] IN
        /\ \A c \in Positions(p, {"SetCloseDownMode"}) :
              /\ \A name \in AtomNames :
                    \E w \in Acked(p, "ChangeProperty") :
                        /\ w < c
                        /\ trace[p][w].atom = name
                        /\ trace[p][w].id = a.shade_pmap
              /\ \E w \in Acked(p, "ChangeWindowAttributes") :
                    w < c /\ trace[p][w].id = a.shade_pmap
              /\ \A i \in 1..Len(trace[p]) : i > c => trace[p][i].step = "Flush"
        /\ (a.pc # "None" /\ Acked(p, "SetCloseDownMode") = {}) =>
              a.connection \notin srv.retain
        /\ (a.pc \in {"Failed", "Panicked"} /\ Acked(p, "SetCloseDownMode") = {}) =>
              /\ a.connection \notin srv.open \cup srv.gone
              /\ PixmapIdOf(a.connection) \notin srv.pixmaps
              /\ GcIdOf(a.connection) \notin srv.gcs

\* C19 witness: the attempt failed at the background install, after both
\* atoms were written; the atoms still hold the id of its pixmap, which
\* the server has destroyed with the graphics context.
C19_Witness ==
    \E p \in Procs :
        /\ att[p].pc = "Failed"
        /\ Last(trace[p]).step = "ChangeWindowAttributes"
        /\ \A name \in AtomNames :
              srv.props[name] = PixProp(att[p].shade_pmap, 32)
        /\ att[p].shade_pmap # 0 /\ att[p].shade_pmap \notin srv.pixmaps
        /\ att[p].gc # 0 /\ att[p].gc \notin srv.gcs

\* C20 as stated: reading a property of type PIXMAP and format 8, 16 or 32
\* never aborts, whatever the length of its value: an attempt has panicked
\* only on a property of another format.
C20_DecodeNeverAborts ==
    \A p \in Procs :
        att[p].pc = "Panicked" =>
            /\ Last(trace[p]).step = "GetProperty"
            /\ srv.props[Last(trace[p]).atom].type = ATOM_PIXMAP
            /\ srv.props[Last(trace[p]).atom].format \notin {8, 16, 32}

\* C11 as stated: while a process holds the handle, whatever has been
\* written through the buffer lock, the bytes of the pixel buffer (and of
\* every PutImage that flush has sent) are width x height x the bytes the
\* server's pixmap format gives a pixel of the depth that flush declares.
C11_BufferLengthFitsDepth ==
    \A p \in Procs :
        cell[p].state = "Init" =>
            LET h == cell[p].handle
                want == h.width * h.height * srv.screen.bits_per_pixel
            IN  /\ h.depth = srv.screen.root_depth
                /\ PixelBytes * Len(buffer[p].data) * 8 = want
                /\ upload[p].sent # NoRequest => upload[p].sent.bytes * 8 = want

\* C12 as stated: a thread in flush that has sent its PutImage and waits
\* for the server's answer no longer holds the buffer lock.
C12_LockFreeWhileAwaiting ==
    \A p \in Procs : \A t \in Threads :
        th[p][t].st = "flush_sent" => buffer[p].holder # t

\* C13: a thread that calls flush while the mutex is free gets the guard,
\* poisoned or not; no step of flush ends the thread; the PutImage carries
\* the buffer as it is when it is sent; and flush returns Ok exactly when
\* the server has taken the image, the request's error otherwise, and
\* nothing else.
C13_FlushRecoversPoison ==
    /\ [](\A p \in Procs : \A t \in Threads :
            (MayUse(p, t) /\ buffer[p].holder = 0) => ENABLED FlushLock(p, t))
    /\ [][ \A p \in Procs : \A t \in Threads :
            LET was == th[p][t].st
                now == th'[p][t].st
            IN  /\ was \in {"idle", "flush_locked", "flush_sent"} => now # "dead"
                /\ (was = "idle" /\ now = "flush_locked") =>
                      buffer'[p].holder = t /\ buffer'[p].data = buffer[p].data
                /\ (was = "flush_locked" /\ now = "flush_sent") =>
                      /\ upload'[p].sent.data = buffer[p].data
                      /\ buffer'[p] = buffer[p]
                /\ (was = "flush_sent" /\ now = "idle") =>
                      /\ fres'[p][t] \in {"Ok", "XCBInteral"}
                      /\ fres'[p][t] = "Ok" =>
                            /\ PutImageValid(srv, cell[p].handle, upload[p].sent)
                            /\ upload'[p].stored = upload[p].sent.data
                      /\ fres'[p][t] = "XCBInteral" => upload'[p] = upload[p]
                      /\ buffer'[p].holder = 0
          ]_vars

\* C13 witness: a writer panicked with the guard, and a flush called
\* after that has uploaded the pixels the writer left and returned Ok.
C13_Witness ==
    \E p \in Procs : \E t \in Threads :
        /\ buffer[p].poisoned
        /\ buffer[p].data # <<>>
        /\ \A i \in DOMAIN buffer[p].data : buffer[p].data[i] = "torn"
        /\ fres[p][t] = "Ok"
        /\ upload[p].stored = buffer[p].data

\* ------------------------------------------------- processes side by side
\* A process starts whatever the others are doing.
StartBeside(p) ==
    /\ pstate[p] = "notstarted"
    /\ pstate' = [pstate EXCEPT ![p] = "alive"]
    /\ UNCHANGED <<srv, cell, th, att, trace, nattempts, ncalls>>
    /\ UNCHANGED hvars

\* The atoms are not registered, or both hold the pixmap that a one-shot
\* setter left behind.
InitBeside ==
    /\ \/ srv = InitServer(NoProp, NoProp, FALSE, FALSE, Head(Screens))
       \/ srv = InitServer(PixProp(PixmapIdOf(ForeignGone), 32),
                           PixProp(PixmapIdOf(ForeignGone), 32),
                           TRUE, TRUE, Head(Screens))
    /\ InitClient

NextBeside == \E p \in Procs : StartBeside(p) \/ Run(p)

\* Processes that run at the same time against one server, their requests
\* interleaved.
SpecBeside == InitBeside /\ [][NextBeside]_vars

\* C18 as stated: once two processes both hold a handle, both convention
\* atoms hold the id of one pixmap, which exists and whose owner is still
\* connected.
C18_PairAgreesOnOnePixmap ==
    \A p, q \in Procs :
        (p # q /\ cell[p].state = "Init" /\ cell[q].state = "Init") =>
            \E id \in srv.pixmaps :
                /\ \A name \in AtomNames : srv.props[name] = PixProp(id, 32)
                /\ OwnerOf(id) \in srv.open

====
